---- MODULE Spec2Model ----
(***************************************************************************)
(* Model of tools/validate_docs.py: the documentation link validator.      *)
(*                                                                         *)
(* A Python str is a sequence of one-character strings.  A pathlib path is *)
(* a record [abs, parts]: whether it is rooted at "/" and its segments.    *)
(* The file system holds no symbolic links, so Path.resolve() is lexical.  *)
(***************************************************************************)
EXTENDS Integers, Sequences, FiniteSets, TLC

VARIABLES
    disk,        \* the tree under docs/: sequence of [rel, readable, text], in rglob order
    md_files,    \* validate: the list rglob returned (absolute paths)
    file_index,  \* validate: the set _build_file_index returned
    fi,          \* validate: position of the for loop over md_files
    content,     \* _validate_file: the text read
    links,       \* _validate_file: the list _extract_links returned
    li,          \* _validate_file: position of the for loop over links
    errors,      \* self.errors
    warnings,    \* self.warnings
    returned,    \* what each finished validate() call returned, with self.errors then
    pc           \* where the run is

vars == <<disk, md_files, file_index, fi, content, links, li, errors, warnings, returned, pc>>

---------------------------------------------------------------------------
(* str methods *)

DotMd == <<".", "m", "d">>

Whitespace == {" ", "\t", "\n"}

SetMin(S) == CHOOSE x \in S : \A y \in S : x <= y

SetMax(S) == CHOOSE x \in S : \A y \in S : y <= x

\* the first position of character c in s at or after position k, 0 when there is none
IndexFrom(s, c, k) ==
    LET hits == {m \in k..Len(s) : s[m] = c}
    IN  IF hits = {} THEN 0 ELSE SetMin(hits)

StartsWith(s, p) == Len(s) >= Len(p) /\ SubSeq(s, 1, Len(p)) = p

EndsWith(s, p) == Len(s) >= Len(p) /\ SubSeq(s, Len(s) - Len(p) + 1, Len(s)) = p

\* link.split('#')[0]
SplitHashFirst(s) ==
    LET k == IndexFrom(s, "#", 1)
    IN  IF k = 0 THEN s ELSE SubSeq(s, 1, k - 1)

\* link.strip()
Strip(s) ==
    LET keep == {k \in 1..Len(s) : s[k] \notin Whitespace}
    IN  IF keep = {} THEN <<>> ELSE SubSeq(s, SetMin(keep), SetMax(keep))

---------------------------------------------------------------------------
(* pathlib *)

\* the segments of s between "/" characters, empty ones included
RECURSIVE SplitSlash(_)
SplitSlash(s) ==
    LET k == IndexFrom(s, "/", 1)
    IN  IF k = 0 THEN <<s>>
        ELSE <<SubSeq(s, 1, k - 1)>> \o SplitSlash(SubSeq(s, k + 1, Len(s)))

\* Path(s): empty and "." segments are dropped, ".." segments are kept
ParsePath(s) ==
    [abs   |-> StartsWith(s, <<"/">>),
     parts |-> SelectSeq(SplitSlash(s), LAMBDA g : g # <<>> /\ g # <<".">>)]

\* p / q
JoinPath(p, q) ==
    IF q.abs THEN q ELSE [abs |-> p.abs, parts |-> p.parts \o q.parts]

RECURSIVE JoinSlash(_)
JoinSlash(parts) ==
    IF Len(parts) = 0 THEN <<>>
    ELSE IF Len(parts) = 1 THEN parts[1]
    ELSE parts[1] \o <<"/">> \o JoinSlash(Tail(parts))

\* str(p)
PathStr(p) ==
    IF p.parts = <<>> THEN (IF p.abs THEN <<"/">> ELSE <<".">>)
    ELSE (IF p.abs THEN <<"/">> ELSE <<>>) \o JoinSlash(p.parts)

\* p.parent
Parent(p) ==
    IF p.parts = <<>> THEN p
    ELSE [abs |-> p.abs, parts |-> SubSeq(p.parts, 1, Len(p.parts) - 1)]

\* p.name
Name(p) == IF p.parts = <<>> THEN <<>> ELSE p.parts[Len(p.parts)]

\* the position of the dot that starts the suffix of a file name, 0 when it has none
SuffixDot(name) ==
    LET dots == {k \in 1..Len(name) : name[k] = "."}
        k == IF dots = {} THEN 0 ELSE SetMax(dots)
    IN  IF 1 < k /\ k < Len(name) THEN k ELSE 0

\* p.stem
Stem(p) ==
    LET k == SuffixDot(Name(p))
    IN  IF k = 0 THEN Name(p) ELSE SubSeq(Name(p), 1, k - 1)

\* p.with_suffix('')
WithSuffixEmpty(p) ==
    [abs |-> p.abs, parts |-> SubSeq(p.parts, 1, Len(p.parts) - 1) \o <<Stem(p)>>]

\* Path.cwd(): the directory the tool is started in
Cwd == [abs |-> TRUE, parts |-> << <<"w">> >>]

\* main: docs_dir = current_dir / "docs"
docs_root == JoinPath(Cwd, ParsePath(<<"d", "o", "c", "s">>))

\* ".." segments folded away, left to right; ".." at the root stays at the root
RECURSIVE Normalize(_, _)
Normalize(done, rest) ==
    IF rest = <<>> THEN done
    ELSE IF Head(rest) = <<".", ".">>
         THEN Normalize(IF done = <<>> THEN done ELSE SubSeq(done, 1, Len(done) - 1),
                        Tail(rest))
         ELSE Normalize(Append(done, Head(rest)), Tail(rest))

\* p.resolve(): a relative path is taken from the current working directory
Resolve(p) ==
    LET a == IF p.abs THEN p ELSE JoinPath(Cwd, p)
    IN  [abs |-> TRUE, parts |-> Normalize(<<>>, a.parts)]

\* whether p.relative_to(root) returns (it raises ValueError otherwise)
IsRelativeTo(p, root) ==
    /\ p.abs = root.abs
    /\ Len(p.parts) >= Len(root.parts)
    /\ SubSeq(p.parts, 1, Len(root.parts)) = root.parts

\* p.relative_to(root), where it returns
RelativeTo(p, root) ==
    [abs |-> FALSE, parts |-> SubSeq(p.parts, Len(root.parts) + 1, Len(p.parts))]

---------------------------------------------------------------------------
(* DocValidator *)

\* the entries of self.errors: the file and the link text formatted into the message
BrokenLinkError(source_file, link) ==
    [kind |-> "broken link", file |-> PathStr(source_file), link |-> link]

CannotReadError(md_file) ==
    [kind |-> "cannot read", file |-> PathStr(md_file), link |-> <<>>]

NoFilesError == [kind |-> "no markdown files", file |-> <<>>, link |-> <<>>]

\* _build_file_index without the line that adds rel_path.stem
IndexFormsWithoutStem(md_file) ==
    LET rel_path == RelativeTo(md_file, docs_root)
    IN  {PathStr(rel_path), PathStr(WithSuffixEmpty(rel_path)), Name(rel_path)}

\* _build_file_index: the four strings added for one file
IndexForms(md_file) ==
    LET rel_path == RelativeTo(md_file, docs_root)
    IN  {PathStr(rel_path), PathStr(WithSuffixEmpty(rel_path)), Name(rel_path), Stem(rel_path)}

\* _build_file_index
BuildFileIndex(files) == UNION {IndexForms(files[k]) : k \in 1..Len(files)}

\* one regex match at position k of s, or <<>>: "[", one or more characters other
\* than "]", "]", the character open, one or more characters other than close, close.
\* A match is <<group 1, group 2, position of its last character>>.
MatchAt(s, k, open, close) ==
    LET e1 == IndexFrom(s, "]", k + 1)
        e2 == IndexFrom(s, close, e1 + 2)
    IN  IF /\ k <= Len(s) /\ s[k] = "["
           /\ e1 > k + 1
           /\ e1 + 1 <= Len(s) /\ s[e1 + 1] = open
           /\ e2 > e1 + 2
        THEN <<SubSeq(s, k + 1, e1 - 1), SubSeq(s, e1 + 2, e2 - 1), e2>>
        ELSE <<>>

\* re.findall(pattern, content): the matches from position k on, left to right,
\* each search resuming after the previous match
RECURSIVE FindAll(_, _, _, _)
FindAll(s, k, open, close) ==
    IF k > Len(s) THEN <<>>
    ELSE LET m == MatchAt(s, k, open, close)
         IN  IF m = <<>> THEN FindAll(s, k + 1, open, close)
             ELSE <<m>> \o FindAll(s, m[3] + 1, open, close)

\* _extract_links taking match[0]
MatchLinkFirstGroup(m) == m[1]

\* _extract_links: link = match[1] if len(match) > 1 else match[0]; both patterns
\* have two groups, and Python counts from 0
MatchLink(m) == m[2]

\* _extract_links with the two patterns listed the other way round
ExtractLinksReferenceFirst(text) ==
    LET inline    == FindAll(text, 1, "(", ")")
        reference == FindAll(text, 1, "[", "]")
        all       == reference \o inline
    IN  [k \in 1..Len(all) |-> MatchLink(all[k])]

\* _extract_links: the links of the inline pattern, then those of the reference pattern
ExtractLinks(text) ==
    LET inline    == FindAll(text, 1, "(", ")")
        reference == FindAll(text, 1, "[", "]")
        all       == inline \o reference
    IN  [k \in 1..Len(all) |-> MatchLink(all[k])]

Http == <<"h", "t", "t", "p", ":", "/", "/">>

Https == <<"h", "t", "t", "p", "s", ":", "/", "/">>

Mailto == <<"m", "a", "i", "l", "t", "o", ":">>

\* _check_link with 'mailto:' missing from the tuple of prefixes
IsSkippedLinkWithoutMailto(link) ==
    \/ StartsWith(link, Http) \/ StartsWith(link, Https)
    \/ StartsWith(link, <<"#">>)

\* _check_link: the two early returns for external and anchor links
IsSkippedLink(link) ==
    \/ StartsWith(link, Http) \/ StartsWith(link, Https) \/ StartsWith(link, Mailto)
    \/ StartsWith(link, <<"#">>)

\* _check_link: link = link.split('#')[0]; link = link.strip()
CleanLink(link) == Strip(SplitHashFirst(link))

\* _check_link appending ".md" without the endswith test
LinkPathAlwaysAppends(link) == link \o DotMd

\* _check_link: link_path
LinkPath(link) == IF EndsWith(link, DotMd) THEN link ELSE link \o DotMd

\* _check_link: the try block; FALSE when relative_to raises or the string is not indexed
ResolvesRelative(link_path, source_file, index) ==
    LET source_dir == RelativeTo(Parent(source_file), docs_root)
        resolved   == Resolve(JoinPath(source_dir, ParsePath(link_path)))
    IN  /\ IsRelativeTo(resolved, docs_root)
        /\ PathStr(RelativeTo(resolved, docs_root)) \in index

\* _check_link formatting the link as it was passed in
ReportedLinkRaw(raw, cleaned) == raw

\* _check_link: the text formatted into the message is the reassigned variable link
ReportedLink(raw, cleaned) == cleaned

\* _check_link: self.errors after the call
CheckLink(raw, source_file, index, errs) ==
    IF IsSkippedLink(raw) THEN errs
    ELSE LET link == CleanLink(raw)
         IN  IF link = <<>> THEN errs
             ELSE IF LinkPath(link) \in index THEN errs
             ELSE IF ResolvesRelative(LinkPath(link), source_file, index) THEN errs
             ELSE Append(errs, BrokenLinkError(source_file, ReportedLink(raw, link)))

\* _report_results returning on the warnings alone
ReportResultsIgnoresErrors(errs, warns) == warns = <<>>

\* _report_results: the value returned
ReportResults(errs, warns) ==
    IF errs = <<>> /\ warns = <<>> THEN TRUE ELSE Len(errs) = 0

---------------------------------------------------------------------------
(* The documents on disk.  A document is what its author wrote: a sequence *)
(* of items, each an inline link [label](target), a reference-style link   *)
(* [label][target] or plain text; its text is the items written in order.  *)

InlineLink(label, target) == [kind |-> "inline", label |-> label, target |-> target]

ReferenceLink(label, id) == [kind |-> "reference", label |-> label, target |-> id]

PlainText(text) == [kind |-> "text", label |-> <<>>, target |-> text]

RenderItem(item) ==
    IF item.kind = "inline"
    THEN <<"[">> \o item.label \o <<"]", "(">> \o item.target \o <<")">>
    ELSE IF item.kind = "reference"
    THEN <<"[">> \o item.label \o <<"]", "[">> \o item.target \o <<"]">>
    ELSE item.target

\* md_file.read_text(): the text of a readable document
RECURSIVE Render(_)
Render(items) ==
    IF items = <<>> THEN <<>> ELSE RenderItem(Head(items)) \o Render(Tail(items))

RelPath(parts) == [abs |-> FALSE, parts |-> parts]

Doc(rel, items) == [rel |-> rel, readable |-> TRUE, items |-> items]

Unreadable(rel) == [rel |-> rel, readable |-> FALSE, items |-> <<>>]

\* docs_root.rglob("*.md"): the files whose name ends in ".md", in the order the
\* directory walk meets them, as paths below docs_root
Rglob(tree) ==
    LET hit == SelectSeq(tree, LAMBDA e : EndsWith(Name(e.rel), DotMd))
    IN  [k \in 1..Len(hit) |-> JoinPath(docs_root, hit[k].rel)]

\* the file on disk that path md_file names
DiskEntry(md_file) ==
    CHOOSE e \in {disk[k] : k \in 1..Len(disk)} : JoinPath(docs_root, e.rel) = md_file

---------------------------------------------------------------------------
(* Bounds, and the trees the runs start from *)

MaxFiles == 2

MaxSegs == 2

MaxPieces == 3

SeqsUpTo(S, n) == UNION {[1..m -> S] : m \in 0..n}

IndexMd == RelPath(<< <<"i", ".", "m", "d">> >>)

PageMd == RelPath(<< <<"a">>, <<"p", ".", "m", "d">> >>)

OtherMd == RelPath(<< <<"b">>, <<"o", ".", "m", "d">> >>)

NotesTxt == RelPath(<< <<"n", ".", "t", "x", "t">> >>)

OMd == <<"o", ".", "m", "d">>

\* what a document of the general trees holds
DocItems ==
    { <<>>,
      <<InlineLink(<<"g">>, OMd)>>,
      <<InlineLink(<<"m">>, <<"n", ".", "m", "d", "#", "s">>), ReferenceLink(<<"r">>, <<"o">>)>>,
      <<InlineLink(<<"s">>, <<".", ".", "/", "b", "/">> \o OMd)>>,
      <<InlineLink(<<"e">>, Https \o <<"e">>), PlainText(<<" ">>), InlineLink(<<"a">>, <<"#", "t">>)>> }

\* general trees: up to MaxFiles files, each unreadable or holding one of DocItems
GeneralTrees ==
    LET Rels  == {IndexMd, PageMd, OtherMd, NotesTxt}
        Files == {Unreadable(r) : r \in Rels} \cup {Doc(r, it) : r \in Rels, it \in DocItems}
    IN  {t \in SeqsUpTo(Files, MaxFiles) :
            \A x, y \in 1..Len(t) : x # y => t[x].rel # t[y].rel}

LinkSegs == {<<".", ".">>, <<"a">>, <<"b">>, <<"d", "o", "c", "s">>, <<"o">>, <<"n">>}

\* link targets: one to MaxSegs segments, rooted or not, with or without ".md",
\* bare, with an anchor, or with blanks around; and the external and anchor links
RawLinks ==
    LET Bodies == {JoinSlash(g) : g \in SeqsUpTo(LinkSegs, MaxSegs) \ {<<>>}}
        Plain  == {lead \o b \o ext :
                      lead \in {<<>>, <<"/">>}, b \in Bodies, ext \in {<<>>, DotMd}}
        Skips  == {pre \o rest :
                      pre \in {Http, Https, Mailto, <<"#">>}, rest \in {<<>>, OMd, <<"n">>}}
    IN  Plain \cup {p \o <<"#", "s">> : p \in Plain} \cup {<<" ">> \o p \o <<" ">> : p \in Plain}
        \cup Skips

\* link trees: b/o.md is there, and a/p.md or i.md holds one link to check
LinkTrees ==
    {<<Doc(src, <<InlineLink(<<"t">>, raw)>>), Doc(OtherMd, <<>>)>> :
        src \in {PageMd, IndexMd}, raw \in RawLinks}

Pieces ==
    { InlineLink(<<"t">>, OMd), InlineLink(<<"t">>, <<"n">>),
      ReferenceLink(<<"u">>, <<"r">>), ReferenceLink(<<"o">>, <<"n">>),
      PlainText(<<" ">>), PlainText(<<"[">>) }

\* text trees: i.md holds up to MaxPieces links and text pieces
TextTrees == {<<Doc(IndexMd, items)>> : items \in SeqsUpTo(Pieces, MaxPieces)}

---------------------------------------------------------------------------
(* validate() *)

\* DocValidator(docs_dir) as main builds it, before validate() is called
Init ==
    /\ disk \in GeneralTrees \cup LinkTrees \cup TextTrees
    /\ md_files = <<>>
    /\ file_index = {}
    /\ fi = 0
    /\ content = <<>>
    /\ links = <<>>
    /\ li = 0
    /\ errors = <<>>
    /\ warnings = <<>>
    /\ returned = <<>>
    /\ pc = "start"

\* validate: rglob finds nothing
ValidateNoFiles ==
    /\ pc = "start"
    /\ Rglob(disk) = <<>>
    /\ md_files' = Rglob(disk)
    /\ errors' = Append(errors, NoFilesError)
    /\ returned' = Append(returned, [success |-> FALSE, errors |-> errors'])
    /\ pc' = "done"
    /\ UNCHANGED <<disk, file_index, fi, content, links, li, warnings>>

\* validate: rglob finds files, and the index is built
ValidateBuildIndex ==
    /\ pc = "start"
    /\ Rglob(disk) # <<>>
    /\ md_files' = Rglob(disk)
    /\ file_index' = BuildFileIndex(md_files')
    /\ fi' = 1
    /\ pc' = "files"
    /\ UNCHANGED <<disk, content, links, li, errors, warnings, returned>>

\* _validate_file letting the read error end the run
ValidateFileCannotReadAborts ==
    /\ pc = "files"
    /\ fi <= Len(md_files)
    /\ ~DiskEntry(md_files[fi]).readable
    /\ errors' = Append(errors, CannotReadError(md_files[fi]))
    /\ returned' = Append(returned, [success |-> FALSE, errors |-> errors'])
    /\ pc' = "done"
    /\ UNCHANGED <<disk, md_files, file_index, fi, content, links, li, warnings>>

\* _validate_file: read_text raises
ValidateFileCannotRead ==
    /\ pc = "files"
    /\ fi <= Len(md_files)
    /\ ~DiskEntry(md_files[fi]).readable
    /\ errors' = Append(errors, CannotReadError(md_files[fi]))
    /\ fi' = fi + 1
    /\ UNCHANGED <<disk, md_files, file_index, content, links, li, warnings, returned, pc>>

\* _validate_file: the text is read and its links extracted
ValidateFileExtract ==
    /\ pc = "files"
    /\ fi <= Len(md_files)
    /\ DiskEntry(md_files[fi]).readable
    /\ content' = Render(DiskEntry(md_files[fi]).items)
    /\ links' = ExtractLinks(content')
    /\ li' = 1
    /\ pc' = "links"
    /\ UNCHANGED <<disk, md_files, file_index, fi, errors, warnings, returned>>

\* _validate_file: one call of _check_link
CheckLinkCall ==
    /\ pc = "links"
    /\ li <= Len(links)
    /\ errors' = CheckLink(links[li], md_files[fi], file_index, errors)
    /\ li' = li + 1
    /\ UNCHANGED <<disk, md_files, file_index, fi, content, links, warnings, returned, pc>>

\* _validate_file returns, and validate goes on to the next file
ValidateFileReturn ==
    /\ pc = "links"
    /\ li > Len(links)
    /\ fi' = fi + 1
    /\ pc' = "files"
    /\ UNCHANGED <<disk, md_files, file_index, content, links, li, errors, warnings, returned>>

\* validate: return self._report_results()
ValidateReport ==
    /\ pc = "files"
    /\ fi > Len(md_files)
    /\ returned' = Append(returned, [success |-> ReportResults(errors, warnings),
                                     errors  |-> errors])
    /\ pc' = "done"
    /\ UNCHANGED <<disk, md_files, file_index, fi, content, links, li, errors, warnings>>

Next ==
    \/ ValidateNoFiles
    \/ ValidateBuildIndex
    \/ ValidateFileCannotRead
    \/ ValidateFileExtract
    \/ CheckLinkCall
    \/ ValidateFileReturn
    \/ ValidateReport

Spec == Init /\ [][Next]_vars

---------------------------------------------------------------------------
(* A caller that keeps the validator and calls validate() again *)

MaxRuns == 2

\* validate() is called once more on the same object, over the same tree: the
\* locals of the call are new, self.errors and self.warnings are the object's
ValidateAgain ==
    /\ pc = "done"
    /\ Len(returned) < MaxRuns
    /\ md_files' = <<>>
    /\ file_index' = {}
    /\ fi' = 0
    /\ content' = <<>>
    /\ links' = <<>>
    /\ li' = 0
    /\ pc' = "start"
    /\ UNCHANGED <<disk, errors, warnings, returned>>

NextRerun == Next \/ ValidateAgain

SpecRerun == Init /\ [][NextRerun]_vars

---------------------------------------------------------------------------
(* Claims *)

\* _check_link is about to be called on links[li] of md_files[fi]
InCheckLink == pc = "links" /\ li <= Len(links)

\* _check_link has just returned from links[li - 1]
AfterCheckLink == pc = "links" /\ li > 1

\* the segments of a document's directory below the docs root
SourceDirParts(md_file) ==
    SubSeq(md_file.parts, Len(docs_root.parts) + 1, Len(md_file.parts) - 1)

\* "." and ".." segments folded away; not ok when ".." climbs above the start
RECURSIVE FoldDots(_, _)
FoldDots(done, rest) ==
    IF rest = <<>> THEN [ok |-> TRUE, parts |-> done]
    ELSE IF Head(rest) = <<".", ".">>
         THEN IF done = <<>> THEN [ok |-> FALSE, parts |-> <<>>]
              ELSE FoldDots(SubSeq(done, 1, Len(done) - 1), Tail(rest))
    ELSE IF Head(rest) \in {<<>>, <<".">>} THEN FoldDots(done, Tail(rest))
    ELSE FoldDots(Append(done, Head(rest)), Tail(rest))

\* the candidate key of a link: cleaned, with ".md" appended if missing
CandidateKey(raw) ==
    LET c == Strip(SplitHashFirst(raw))
    IN  IF EndsWith(c, DotMd) THEN c ELSE c \o DotMd

\* the key, joined to the source document's directory relative to the docs root
\* and normalized, is a path of the index
AddressesIndexEntry(raw, md_file) ==
    LET at == FoldDots(SourceDirParts(md_file), SplitSlash(CandidateKey(raw)))
    IN  /\ ~StartsWith(CandidateKey(raw), <<"/">>)
        /\ at.ok
        /\ at.parts # <<>>
        /\ JoinSlash(at.parts) \in file_index

HasSkipPrefix(raw) ==
    \E p \in {Http, Https, Mailto, <<"#">>} : StartsWith(raw, p)

\* C1: a link whose candidate key is not in the index, but which joined to its
\* source document's directory (relative to the docs root) and normalized gives a
\* path of the index, makes _check_link append no error.
C1_RelativeResolution ==
    [][(/\ InCheckLink
        /\ ~HasSkipPrefix(links[li])
        /\ Strip(SplitHashFirst(links[li])) # <<>>
        /\ CandidateKey(links[li]) \notin file_index
        /\ AddressesIndexEntry(links[li], md_files[fi]))
       => errors' = errors]_vars

\* C2 as stated: every Broken diagnostic _check_link appends carries the source
\* document and the raw link text as extracted, before cleaning.
C2_CarriesRawLink ==
    [][(InCheckLink /\ errors' # errors)
       => errors' = Append(errors, [kind |-> "broken link",
                                    file |-> PathStr(md_files[fi]),
                                    link |-> links[li]])]_vars

\* C2 as amended: every Broken diagnostic _check_link appends carries the source
\* document and the cleaned link text: the raw text cut at its first "#" and trimmed.
C2_CarriesCleanedLink ==
    [][(InCheckLink /\ errors' # errors)
       => errors' = Append(errors, [kind |-> "broken link",
                                    file |-> PathStr(md_files[fi]),
                                    link |-> Strip(SplitHashFirst(links[li]))])]_vars

\* a broken link with an anchor or blanks has been reported, by its cleaned text
C2_Witness ==
    /\ AfterCheckLink
    /\ errors # <<>>
    /\ links[li - 1] # Strip(SplitHashFirst(links[li - 1]))
    /\ errors[Len(errors)].kind = "broken link"
    /\ errors[Len(errors)].link = Strip(SplitHashFirst(links[li - 1]))

\* C3: a call of _check_link on a link that begins with http://, https://, mailto:
\* or # leaves the error list unchanged, whatever the index and the source document.
C3_SkippedLinks ==
    [][(InCheckLink /\ HasSkipPrefix(links[li])) => errors' = errors]_vars

\* a mailto: link has been checked in a tree with documents, and nothing was reported
C3_Witness ==
    /\ AfterCheckLink
    /\ StartsWith(links[li - 1], Mailto)
    /\ file_index # {}
    /\ errors = <<>>

\* C4: a call of _check_link on a link that is not skipped and whose cleaned target
\* is an entry of the index appends no error, whatever the source document's directory.
C4_ExactMatch ==
    [][(/\ InCheckLink
        /\ ~HasSkipPrefix(links[li])
        /\ Strip(SplitHashFirst(links[li])) \in file_index)
       => errors' = errors]_vars

\* a/p.md links to o.md, the only o.md is b/o.md, and nothing was reported
C4_Witness ==
    /\ AfterCheckLink
    /\ links[li - 1] = OMd
    /\ md_files[fi] = JoinPath(docs_root, PageMd)
    /\ \A k \in 1..Len(md_files) : Name(md_files[k]) = OMd => md_files[k] = JoinPath(docs_root, OtherMd)
    /\ \E k \in 1..Len(md_files) : md_files[k] = JoinPath(docs_root, OtherMd)
    /\ errors = <<>>

\* the tree holds no document
NoDocuments == \A k \in 1..Len(disk) : ~EndsWith(Name(disk[k].rel), DotMd)

\* C5: validate() returns success exactly when the error list is empty; with no
\* document it returns failure with the one "no documents" error and builds no
\* index and checks no file; otherwise it returns true iff the run appended no
\* error; the warnings list is always empty.
C5_Verdict ==
    /\ warnings = <<>>
    /\ \A k \in 1..Len(returned) : returned[k].success = (returned[k].errors = <<>>)
    /\ pc = "done" =>
          /\ Len(returned) = 1
          /\ returned[1].errors = errors
          /\ IF NoDocuments
             THEN /\ returned[1].success = FALSE
                  /\ errors = <<[kind |-> "no markdown files", file |-> <<>>, link |-> <<>>]>>
                  /\ file_index = {} /\ fi = 0 /\ li = 0 /\ links = <<>>
             ELSE /\ returned[1].success = (Len(errors) = 0)
                  /\ \A k \in 1..Len(errors) : errors[k].kind # "no markdown files"

\* a run over documents has returned failure with errors in the list
C5_Witness ==
    /\ pc = "done"
    /\ ~NoDocuments
    /\ returned[1].success = FALSE
    /\ Len(errors) >= 1

\* C6: a document that cannot be read gets exactly one error, none of its links is
\* extracted or checked, and the loop goes on to the next document: when the run
\* returns, every document has been passed.
C6_ReadError ==
    /\ [][(pc = "files" /\ fi <= Len(md_files) /\ ~DiskEntry(md_files[fi]).readable)
          => /\ errors' = Append(errors, [kind |-> "cannot read",
                                          file |-> PathStr(md_files[fi]),
                                          link |-> <<>>])
             /\ links' = links /\ li' = li /\ content' = content
             /\ pc' = "files" /\ fi' = fi + 1]_vars
    /\ [](pc = "done" /\ md_files # <<>> => fi = Len(md_files) + 1)

\* the first document could not be read, and the second one's broken link was
\* reported after it
C6_Witness ==
    /\ pc = "done"
    /\ Len(md_files) = 2
    /\ ~DiskEntry(md_files[1]).readable
    /\ Len(errors) = 2
    /\ errors[1].kind = "cannot read" /\ errors[1].file = PathStr(md_files[1])
    /\ errors[2].kind = "broken link" /\ errors[2].file = PathStr(md_files[2])

\* the text after the last "/" of a string
BaseName(s) ==
    LET slashes == {k \in 1..Len(s) : s[k] = "/"}
    IN  IF slashes = {} THEN s ELSE SubSeq(s, SetMax(slashes) + 1, Len(s))

\* a string that ends in ".md", without it
WithoutMd(s) == SubSeq(s, 1, Len(s) - 3)

\* C7: the index built from the discovered documents holds, for each document with
\* relative path P: P, P without the extension, the file name of P and the file
\* name without the extension; and no later step of the run changes the index.
C7_Index ==
    /\ [](pc \in {"files", "links", "done"} =>
            \A k \in 1..Len(disk) :
                LET P == JoinSlash(disk[k].rel.parts)
                IN  EndsWith(P, DotMd) =>
                        {P, WithoutMd(P), BaseName(P), WithoutMd(BaseName(P))} \subseteq file_index)
    /\ [][(pc \in {"files", "links"}) => file_index' = file_index]_vars

\* a run over a/p.md and b/o.md has ended with the eight forms in the index
C7_Witness ==
    /\ pc = "done"
    /\ Len(md_files) = 2
    /\ Cardinality(file_index) = 8
    /\ <<"a", "/", "p">> \in file_index
    /\ <<"o">> \in file_index

\* what the author wrote in the document being validated
Written == DiskEntry(md_files[fi]).items

WrittenOf(kind) == SelectSeq(Written, LAMBDA it : it.kind = kind)

\* _extract_links has returned for md_files[fi]
Extracted == pc = "links"

C9_TextOrder ==
    Extracted =>
        LET ln == SelectSeq(Written, LAMBDA it : it.kind # "text")
        IN  links = [k \in 1..Len(ln) |-> ln[k].target]

\* C9 as amended: the targets of the inline links are listed in the order they occur
\* in the text, then those of the reference-style links in the order they occur,
\* duplicates kept.
C9_InlineThenReference ==
    Extracted =>
        LET ln == WrittenOf("inline") \o WrittenOf("reference")
        IN  links = [k \in 1..Len(ln) |-> ln[k].target]

\* a reference-style link written before two inline links to the same target comes
\* out after them, and the target comes out twice
C9_Witness ==
    /\ Extracted
    /\ Len(Written) = 3
    /\ Written[1].kind = "reference"
    /\ Written[2].kind = "inline" /\ Written[3] = Written[2]
    /\ links = <<Written[2].target, Written[2].target, Written[1].target>>

\* C10: a second validate() on the same validator over the same documents returns
\* the same error list and the same success flag as the first.
C10_NothingPersists ==
    \A k \in 2..Len(returned) : returned[k] = returned[1]

====
